---- MODULE Spec2Model ----
(***************************************************************************)
(* Kernel setup of atoml/regression/gpfunctions/kernel_setup.py:           *)
(*   prepare_kernels  validates a kernel dictionary, broadcasts scalar     *)
(*                    parameters and collects the optimizer bounds;        *)
(*   kdicts2list      flattens the hyperparameters of a kernel dictionary; *)
(*   list2kdict       writes a flat vector back into a kernel dictionary.  *)
(*                                                                         *)
(* A kernel dictionary is an ordered mapping key -> kernel block.  It is   *)
(* modelled as the sequence of its blocks in iteration order; a block is a *)
(* function from the keys it holds to their values, so that                *)
(* `k \in DOMAIN kdict` is Python's `k in kdict`.                          *)
(***************************************************************************)
EXTENDS Integers, Sequences, FiniteSets, TLC

VARIABLES
    kernel_dict,      \* the caller's kernel dictionary (mutated in place)
    before,           \* copy of kernel_dict taken when the last call started
    pc,               \* "raw" | "prepared" | "spec" | "encoded" | "proposed" | "decoded"
    err,              \* exception raised by the last call, "none" if it returned
    bounds,           \* bounds returned by prepare_kernels (<<>> if nothing returned)
    failed_at,        \* index of the block at which the last call raised, 0 if none
    args,             \* arguments of the last prepare_kernels call
    hyperparameters,  \* the flat vector: last kdicts2list result or optimizer proposal
    last_vec,         \* the vector handed to the last list2kdict call
    src,              \* where hyperparameters came from: "none" | "encode" | "optimizer"
    iter              \* number of list2kdict calls made so far

vars == <<kernel_dict, before, pc, err, bounds, failed_at, args,
          hyperparameters, last_vec, src, iter>>

(***************************************************************************)
(* Bounds of the model.                                                    *)
(***************************************************************************)
MaxBlocks == 2     \* blocks per kernel dictionary
MaxDim == 2        \* ambient dimension N_D; parameter lists have 1..MaxDim entries
MaxVal == 2        \* parameter values of the codec inputs are drawn from 1..MaxVal
MaxIter == 2       \* list2kdict calls per run

(***************************************************************************)
(* Python values.  A number keeps its Python type (float or int); a        *)
(* list / tuple / array of values is a sequence of such values.            *)
(***************************************************************************)
PyFloat(n) == [ty |-> "float", n |-> n]
PyInt(n) == [ty |-> "int", n |-> n]
PyList(s) == [ty |-> "list", v |-> s]

IsList(x) == x.ty = "list"
IsScalar(x) == x.ty \in {"float", "int"}
\* isinstance(x, float)
IsFloat(x) == x.ty = "float"

\* [x] * n
Repeat(x, n) == [i \in 1..n |-> x]

\* t * n for a tuple t
RECURSIVE TupleTimes(_, _)
TupleTimes(t, n) == IF n <= 0 THEN <<>> ELSE t \o TupleTimes(t, n - 1)

Min(a, b) == IF a < b THEN a ELSE b

\* s[a:b] with Python's clamping of the slice ends (0-based a, b >= 0)
Slice(s, a, b) == SubSeq(s, Min(a, Len(s)) + 1, Min(b, Len(s)))

\* 'k' in kdict
Has(kdict, k) == k \in DOMAIN kdict

(***************************************************************************)
(* prepare_kernels                                                         *)
(***************************************************************************)
\* default_bounds, a one-element tuple holding the default (low, high) pair
DefaultBounds(eval_gradients) ==
    IF eval_gradients THEN <<"(1e-6,1e6)">> ELSE <<"(1e-12,None)">>

\* kernel types for which a _<type>_setup function exists
SetupTypes == {"constant", "gaussian", "quadratic", "laplacian"}

\* AllowedKeys with the key check of the laplacian kernel left out
AllowedKeysLaplacianUnchecked(ktype) ==
    CASE ktype = "constant" ->
             {"type", "operation", "features", "dimension", "const"}
      [] ktype = "gaussian" ->
             {"type", "operation", "features", "dimension", "scaling", "width"}
      [] ktype = "quadratic" ->
             {"type", "operation", "features", "dimension", "scaling",
              "slope", "degree"}
      [] ktype = "laplacian" ->
             {"type", "operation", "features", "dimension", "scaling", "width",
              "scaling_bounds", "bounds", "bogus"}

AllowedKeys(ktype) ==
    CASE ktype = "constant" ->
             {"type", "operation", "features", "dimension", "const"}
      [] ktype = "gaussian" ->
             {"type", "operation", "features", "dimension", "scaling", "width"}
      [] ktype = "quadratic" ->
             {"type", "operation", "features", "dimension", "scaling",
              "slope", "degree"}
      [] ktype = "laplacian" ->
             {"type", "operation", "features", "dimension", "scaling", "width"}

\* for k in kdict_param: assert k in allowed_keys
KeysAllowed(kdict_param, ktype) == DOMAIN kdict_param \subseteq AllowedKeys(ktype)

\* What a setup function leaves behind: the exception it raised (or "none"),
\* the block as it stands then (the block is assigned in place) and the bounds.
SetupResult(e, kdict_param, bnds) == [err |-> e, kdict |-> kdict_param, bounds |-> bnds]

scaling_setup(kdict_param, bnds, default_bounds) ==
    IF ~IsFloat(kdict_param["scaling"])
    THEN SetupResult("AssertionError", kdict_param, bnds)
    ELSE IF Has(kdict_param, "scaling_bounds")
         THEN SetupResult("none", kdict_param, bnds \o kdict_param["scaling_bounds"])
         ELSE SetupResult("none", kdict_param, bnds \o default_bounds)

constant_setup(kdict_param, bnds, N_D, default_bounds) ==
    IF ~KeysAllowed(kdict_param, "constant")
    THEN SetupResult("AssertionError", kdict_param, bnds)
    ELSE IF ~Has(kdict_param, "const")
    THEN SetupResult("KeyError", kdict_param, bnds)
    ELSE IF ~IsFloat(kdict_param["const"])
    THEN SetupResult("AssertionError", kdict_param, bnds)
    ELSE IF Has(kdict_param, "bounds")
         THEN SetupResult("none", kdict_param, bnds \o kdict_param["bounds"])
         ELSE SetupResult("none", kdict_param, bnds \o default_bounds)

\* theta = kdict_param[key]; if type(theta) is float or int: kdict_param[key] = [theta] * N_D
Broadcast(kdict_param, key, N_D) ==
    IF IsScalar(kdict_param[key])
    THEN [kdict_param EXCEPT ![key] = PyList(Repeat(kdict_param[key], N_D))]
    ELSE kdict_param

\* gaussian_setup with the width broadcast before the keys are checked
gaussian_setup_broadcast_first(kdict_param, bnds, N_D, default_bounds) ==
    IF ~Has(kdict_param, "width")
    THEN SetupResult("AssertionError", kdict_param, bnds)
    ELSE IF ~KeysAllowed(kdict_param, "gaussian")
    THEN SetupResult("AssertionError", Broadcast(kdict_param, "width", N_D), bnds)
    ELSE IF Has(kdict_param, "bounds")
         THEN SetupResult("none", Broadcast(kdict_param, "width", N_D),
                          bnds \o kdict_param["bounds"])
         ELSE SetupResult("none", Broadcast(kdict_param, "width", N_D),
                          bnds \o TupleTimes(default_bounds, N_D))

gaussian_setup(kdict_param, bnds, N_D, default_bounds) ==
    IF ~Has(kdict_param, "width")
    THEN SetupResult("AssertionError", kdict_param, bnds)
    ELSE IF ~KeysAllowed(kdict_param, "gaussian")
    THEN SetupResult("AssertionError", kdict_param, bnds)
    ELSE IF Has(kdict_param, "bounds")
         THEN SetupResult("none", Broadcast(kdict_param, "width", N_D),
                          bnds \o kdict_param["bounds"])
         ELSE SetupResult("none", Broadcast(kdict_param, "width", N_D),
                          bnds \o TupleTimes(default_bounds, N_D))

quadratic_setup(kdict_param, bnds, N_D, default_bounds) ==
    IF ~(Has(kdict_param, "slope") /\ Has(kdict_param, "degree"))
    THEN SetupResult("AssertionError", kdict_param, bnds)
    ELSE IF ~KeysAllowed(kdict_param, "quadratic")
    THEN SetupResult("AssertionError", kdict_param, bnds)
    ELSE LET slope_bounds == IF Has(kdict_param, "bounds")
                             THEN kdict_param["bounds"]
                             ELSE TupleTimes(default_bounds, N_D)
             degree_bounds == IF Has(kdict_param, "bounds")
                              THEN kdict_param["bounds"]
                              ELSE default_bounds
         IN SetupResult("none", Broadcast(kdict_param, "slope", N_D),
                        bnds \o slope_bounds \o degree_bounds)

laplacian_setup(kdict_param, bnds, N_D, default_bounds) ==
    IF ~Has(kdict_param, "width")
    THEN SetupResult("AssertionError", kdict_param, bnds)
    ELSE IF ~KeysAllowed(kdict_param, "laplacian")
    THEN SetupResult("AssertionError", kdict_param, bnds)
    ELSE IF Has(kdict_param, "bounds")
         THEN SetupResult("none", Broadcast(kdict_param, "width", N_D),
                          bnds \o kdict_param["bounds"])
         ELSE SetupResult("none", Broadcast(kdict_param, "width", N_D),
                          bnds \o TupleTimes(default_bounds, N_D))

\* eval('_{}_setup(kdict, bounds, N_D, default_bounds)'.format(ktype)); an
\* undefined function name is a NameError, re-raised as NotImplementedError
EvalSetup(ktype, kdict, bnds, N_D, default_bounds) ==
    CASE ktype = "constant" -> constant_setup(kdict, bnds, N_D, default_bounds)
      [] ktype = "gaussian" -> gaussian_setup(kdict, bnds, N_D, default_bounds)
      [] ktype = "quadratic" -> quadratic_setup(kdict, bnds, N_D, default_bounds)
      [] ktype = "laplacian" -> laplacian_setup(kdict, bnds, N_D, default_bounds)
      [] OTHER -> SetupResult("NotImplementedError", kdict, bnds)

\* The loop state of prepare_kernels: the dictionary, the local `bounds`, the
\* local `N_D` (reassigned by the loop body) and the exception raised, if any.
LoopState(kd, bnds, N_D, e, at) ==
    [kernel_dict |-> kd, bounds |-> bnds, N_D |-> N_D, err |-> e, failed_at |-> at]

Raise(st, e, i) == [st EXCEPT !.err = e, !.failed_at = i]

\* One iteration of `for key in kernel_dict`.  `interned` is the outcome of the
\* identity tests `kdict['dimension'] is 'single'`, `ktype is not 'user'` and
\* `ktype is not 'linear'` on strings equal to the literal: true when the
\* interpreter shares the string object with the literal, false otherwise.
PrepareBlock(st, i, default_bounds, interned) ==
    LET kdict == st.kernel_dict[i] IN
    IF ~Has(kdict, "type") THEN Raise(st, "AssertionError", i)
    ELSE IF Has(kdict, "features") /\ Len(kdict["features"]) > st.N_D
    THEN Raise(st, "AssertionError", i)
    ELSE IF Has(kdict, "dimension") /\ kdict["dimension"] \notin {"single", "features"}
    THEN Raise(st, "AssertionError", i)
    ELSE
      LET nd_f == IF Has(kdict, "features") THEN Len(kdict["features"]) ELSE st.N_D
          nd == IF Has(kdict, "dimension") /\ kdict["dimension"] = "single" /\ interned
                THEN 1 ELSE nd_f
          sc == IF Has(kdict, "scaling")
                THEN scaling_setup(kdict, st.bounds, default_bounds)
                ELSE SetupResult("none", kdict, st.bounds)
          ktype == kdict["type"]
      IN IF sc.err # "none" THEN Raise([st EXCEPT !.N_D = nd], sc.err, i)
         ELSE IF interned /\ ktype \in {"user", "linear"}
         THEN [st EXCEPT !.N_D = nd, !.bounds = sc.bounds]
         ELSE LET r == EvalSetup(ktype, kdict, sc.bounds, nd, default_bounds)
              IN IF r.err # "none"
                 THEN Raise([st EXCEPT !.N_D = nd, !.kernel_dict[i] = r.kdict], r.err, i)
                 ELSE [st EXCEPT !.N_D = nd, !.bounds = r.bounds,
                                 !.kernel_dict[i] = r.kdict]

RECURSIVE PrepareLoop(_, _, _, _)
PrepareLoop(st, i, default_bounds, interned) ==
    IF i > Len(st.kernel_dict) \/ st.err # "none" THEN st
    ELSE PrepareLoop(PrepareBlock(st, i, default_bounds, interned), i + 1,
                     default_bounds, interned)

\* The outcome of prepare_kernels: the exception (or "none"), the caller's
\* dictionary after the call, and the returned bounds (none when it raised).
prepare_kernels(kd, regularization_bounds, eval_gradients, N_D, interned) ==
    LET st == PrepareLoop(LoopState(kd, <<>>, N_D, "none", 0), 1,
                          DefaultBounds(eval_gradients), interned)
    IN IF st.err = "none"
       THEN [st EXCEPT !.bounds = st.bounds \o <<regularization_bounds>>]
       ELSE [st EXCEPT !.bounds = <<>>]

(***************************************************************************)
(* Inputs of prepare_kernels: raw kernel blocks as a caller writes them.   *)
(***************************************************************************)
\* list(range(n)), the feature indices of a block
Features(n) == [i \in 1..n |-> i - 1]

\* a parameter list of n floats
FloatList(n) == PyList([i \in 1..n |-> PyFloat(i)])

\* a well-formed block of each kernel type, scalar parameters not yet broadcast
Canonical(ktype) ==
    CASE ktype = "constant" -> ("type" :> ktype) @@ ("const" :> PyFloat(1))
      [] ktype \in {"gaussian", "laplacian"} ->
             ("type" :> ktype) @@ ("width" :> PyFloat(1))
      [] ktype = "quadratic" ->
             ("type" :> ktype) @@ ("slope" :> PyFloat(1)) @@ ("degree" :> PyFloat(2))
      [] ktype = "user" ->
             ("type" :> ktype) @@ ("hyperparameters" :> FloatList(1))
      [] OTHER -> ("type" :> ktype)

PrepTypes == SetupTypes \cup {"linear", "user", "rbf_unknown"}

\* blocks with a required key missing or of the wrong Python type
Malformed ==
    { ("width" :> PyFloat(1)),
      ("type" :> "gaussian"),
      ("type" :> "constant"),
      ("type" :> "constant") @@ ("const" :> PyInt(1)),
      ("type" :> "quadratic") @@ ("slope" :> PyFloat(1)),
      ("type" :> "gaussian") @@ ("width" :> PyInt(1)) }

\* parameters already given per dimension
Listed ==
    { ("type" :> t) @@ ("width" :> FloatList(n)) :
          t \in {"gaussian", "laplacian"}, n \in {MaxDim} }
    \cup { ("type" :> "quadratic") @@ ("slope" :> FloatList(MaxDim))
             @@ ("degree" :> PyFloat(2)) }

\* the optional keys handled by the loop body of prepare_kernels
LoopExtras ==
    { ("features" :> Features(n)) : n \in 1..(MaxDim + 1) }
    \cup { ("dimension" :> d) : d \in {"single", "features", "both"} }
    \cup { ("scaling" :> s) : s \in {PyFloat(3), PyInt(3)} }
    \cup { ("scaling" :> PyFloat(3)) @@ ("scaling_bounds" :> sb) :
              sb \in { <<"sb_low", "sb_high">>, <<"(sb_low,sb_high)">> } }

\* the optional keys seen only by the per-type setup functions
SetupExtras ==
    { ("operation" :> "sum"), ("bounds" :> <<"(b_low,b_high)">>), ("bogus" :> PyInt(5)) }

PrepBlocks ==
    { Canonical(t) : t \in PrepTypes }
    \cup Malformed \cup Listed
    \cup { Canonical(t) @@ e : t \in {"gaussian", "linear"}, e \in LoopExtras }
    \cup { Canonical("constant") @@ ("scaling" :> PyFloat(3)) }
    \cup { Canonical(t) @@ e : t \in SetupTypes \cup {"linear"}, e \in SetupExtras }

\* kernel dictionaries of 1..MaxBlocks blocks
RECURSIVE Dicts(_, _)
Dicts(blocks, n) ==
    IF n = 0 THEN {<<>>}
    ELSE LET shorter == Dicts(blocks, n - 1)
         IN shorter \cup { Append(d, b) : d \in {x \in shorter : Len(x) = n - 1},
                                          b \in blocks }

PrepDicts == Dicts(PrepBlocks, MaxBlocks) \ {<<>>}

NoArgs == [N_D |-> 0, eval_gradients |-> FALSE, regularization_bounds |-> "none",
           interned |-> TRUE]

InitPrepare ==
    /\ kernel_dict \in PrepDicts
    /\ before = kernel_dict
    /\ pc = "raw"
    /\ err = "none"
    /\ bounds = <<>>
    /\ failed_at = 0
    /\ args = NoArgs
    /\ hyperparameters = <<>>
    /\ last_vec = <<>>
    /\ src = "none"
    /\ iter = 0

\* The caller runs prepare_kernels on its raw dictionary.
Prepare ==
    /\ pc = "raw"
    /\ \E N_D \in 1..MaxDim, eval_gradients \in BOOLEAN, interned \in BOOLEAN :
          LET r == prepare_kernels(kernel_dict, "(reg_low,reg_high)",
                                   eval_gradients, N_D, interned)
          IN /\ args' = [N_D |-> N_D, eval_gradients |-> eval_gradients,
                         regularization_bounds |-> "(reg_low,reg_high)",
                         interned |-> interned]
             /\ before' = kernel_dict
             /\ kernel_dict' = r.kernel_dict
             /\ bounds' = r.bounds
             /\ err' = r.err
             /\ failed_at' = r.failed_at
    /\ pc' = "prepared"
    /\ UNCHANGED <<hyperparameters, last_vec, src, iter>>

NextPrepare == Prepare

SpecPrepare == InitPrepare /\ [][NextPrepare]_vars

(***************************************************************************)
(* kdict2list / kdicts2list                                                *)
(***************************************************************************)
ThetaResult(e, theta) == [err |-> e, theta |-> theta]

\* list(kdict[key]): the elements of a list; a float is not iterable
ListOf(kdict, key) ==
    IF ~Has(kdict, key) THEN ThetaResult("KeyError", <<>>)
    ELSE IF ~IsList(kdict[key]) THEN ThetaResult("TypeError", <<>>)
    ELSE ThetaResult("none", kdict[key].v)

\* The 'hyperparameters' / 'theta' branches: N_D = 0 stands for N_D=None.
\* The result is the stored list itself, or a float broadcast N_D times; an
\* int is returned as it is and cannot be added to the scaling list.
GenericTheta(kdict, key, N_D) ==
    LET theta == kdict[key]
        nd == IF Has(kdict, "features") THEN Len(kdict["features"]) ELSE N_D
    IN IF IsList(theta) THEN ThetaResult("none", theta.v)
       ELSE IF ~Has(kdict, "features") /\ N_D = 0 THEN ThetaResult("TypeError", <<>>)
       ELSE IF IsFloat(theta) THEN ThetaResult("none", Repeat(theta, nd))
       ELSE ThetaResult("TypeError", <<>>)

\* The if / elif chain that follows the gaussian test; `first` is what the
\* gaussian test left in theta (an unbound theta is an UnboundLocalError).
ThetaChain(kdict, ktype, N_D, first) ==
    IF ktype = "scaled_sqe"
    THEN LET d == ListOf(kdict, "d_scaling")
             w == ListOf(kdict, "width")
         IN IF d.err # "none" THEN d
            ELSE IF w.err # "none" THEN w
            ELSE ThetaResult("none", d.theta \o w.theta)
    ELSE IF ktype = "quadratic"
    THEN LET sl == ListOf(kdict, "slope")
         IN IF sl.err # "none" THEN sl
            ELSE IF ~Has(kdict, "degree") THEN ThetaResult("KeyError", <<>>)
            ELSE ThetaResult("none", Append(sl.theta, kdict["degree"]))
    ELSE IF ktype = "linear" THEN ThetaResult("none", <<>>)
    ELSE IF ktype = "constant"
    THEN IF Has(kdict, "const") THEN ThetaResult("none", <<kdict["const"]>>)
         ELSE ThetaResult("KeyError", <<>>)
    ELSE IF Has(kdict, "hyperparameters") THEN GenericTheta(kdict, "hyperparameters", N_D)
    ELSE IF Has(kdict, "theta") THEN GenericTheta(kdict, "theta", N_D)
    ELSE first

\* kdict2list returns (scaling, theta); the model returns scaling + theta, the
\* only use kdicts2list makes of it.  The 'constrained' key is read but never
\* returned, and no modelled block carries it.
kdict2list(kdict, N_D) ==
    IF ~Has(kdict, "type") THEN ThetaResult("KeyError", <<>>)
    ELSE LET ktype == kdict["type"]
             scaling == IF Has(kdict, "scaling") THEN <<kdict["scaling"]>> ELSE <<>>
             first == IF ktype \in {"gaussian", "sqe", "laplacian"}
                      THEN ListOf(kdict, "width")
                      ELSE ThetaResult("UnboundLocalError", <<>>)
         IN IF ktype \in {"gaussian", "sqe", "laplacian"} /\ first.err # "none"
            THEN first
            ELSE LET r == ThetaChain(kdict, ktype, N_D, first)
                 IN IF r.err # "none" THEN r
                    ELSE ThetaResult("none", scaling \o r.theta)

\* numpy.concatenate of a list of lists of numbers: one flat array; its dtype
\* is float as soon as one element is a float.
Promote(flat) ==
    IF \E i \in 1..Len(flat) : IsFloat(flat[i])
    THEN [i \in 1..Len(flat) |-> PyFloat(flat[i].n)]
    ELSE flat

\* A list holding a sequence next to numbers is ragged: depending on the numpy
\* version the call raises ValueError (`ragged_raises`) or yields an array
\* of objects that still holds the nested sequence.
np_concatenate(lists, ragged_raises) ==
    IF \A i \in 1..Len(lists) : IsScalar(lists[i])
    THEN ThetaResult("none", Promote(lists))
    ELSE IF ragged_raises THEN ThetaResult("ValueError", <<>>)
    ELSE ThetaResult("none", lists)

RECURSIVE EncodeLoop(_, _, _, _)
EncodeLoop(kd, i, N_D, acc) ==
    IF i > Len(kd) THEN ThetaResult("none", acc)
    ELSE LET r == kdict2list(kd[i], N_D)
         IN IF r.err # "none" THEN r
            ELSE EncodeLoop(kd, i + 1, N_D, acc \o r.theta)

kdicts2list(kd, N_D, ragged_raises) ==
    LET r == EncodeLoop(kd, 1, N_D, <<>>)
    IN IF r.err # "none" THEN r
       ELSE IF Len(kd) = 0 THEN ThetaResult("ValueError", <<>>)
       ELSE np_concatenate(r.theta, ragged_raises)

(***************************************************************************)
(* list2kdict                                                              *)
(***************************************************************************)
\* The loop state of list2kdict: the dictionary, the read position ki, the
\* exception raised, if any.
DecodeState(kd, ki, e, at) ==
    [kernel_dict |-> kd, ki |-> ki, err |-> e, failed_at |-> at]

DecodeRaise(st, e, i) == [st EXCEPT !.err = e, !.failed_at = i]

\* float(x) of an array element: a number, or a one-element array
FloatOf(x) ==
    IF IsScalar(x) THEN PyFloat(x.n)
    ELSE IF Len(x.v) = 1 /\ IsScalar(x.v[1]) THEN PyFloat(x.v[1].n)
    ELSE x

CanFloat(x) == IsScalar(x) \/ (Len(x.v) = 1 /\ IsScalar(x.v[1]))

\* len(kernel_dict[key][name])
LenOf(kdict, name) ==
    IF ~Has(kdict, name) THEN ThetaResult("KeyError", 0)
    ELSE IF ~IsList(kdict[name]) THEN ThetaResult("TypeError", 0)
    ELSE ThetaResult("none", Len(kdict[name].v))

\* The type branches of one loop iteration, entered at read position ki.
DecodeTheta(st, i, hp, ki) ==
    LET kdict == st.kernel_dict[i]
        ktype == kdict["type"]
    IN IF ktype \in {"gaussian", "sqe", "laplacian"}
       THEN LET n == LenOf(kdict, "width")
            IN IF n.err # "none" THEN DecodeRaise(st, n.err, i)
               ELSE [st EXCEPT !.kernel_dict[i]["width"] =
                                   PyList(Slice(hp, ki, ki + n.theta)),
                               !.ki = ki + n.theta]
       ELSE IF ktype = "scaled_sqe"
       THEN LET n == LenOf(kdict, "width")
            IN IF n.err # "none" THEN DecodeRaise(st, n.err, i)
               ELSE [st EXCEPT !.kernel_dict[i] =
                         [k \in DOMAIN kdict \cup {"d_scaling"} |->
                            IF k = "d_scaling" THEN PyList(Slice(hp, ki, ki + n.theta))
                            ELSE IF k = "width"
                            THEN PyList(Slice(hp, ki + n.theta, ki + 2 * n.theta))
                            ELSE kdict[k]],
                               !.ki = ki + 2 * n.theta]
       ELSE IF ktype = "quadratic"
       THEN LET n == LenOf(kdict, "slope")
                theta == Slice(hp, ki, ki + n.theta + 1)
            IN IF n.err # "none" THEN DecodeRaise(st, n.err, i)
               ELSE [st EXCEPT !.kernel_dict[i] =
                         [k \in DOMAIN kdict \cup {"degree"} |->
                            IF k = "slope" THEN PyList(Slice(theta, 0, n.theta))
                            ELSE IF k = "degree"
                            THEN PyList(Slice(theta, n.theta, Len(theta)))
                            ELSE kdict[k]],
                               !.ki = ki + n.theta + 1]
       ELSE IF ktype = "linear" THEN [st EXCEPT !.ki = ki]
       ELSE IF ktype = "constant"
       THEN IF ki >= Len(hp) THEN DecodeRaise(st, "IndexError", i)
            ELSE IF ~CanFloat(hp[ki + 1]) THEN DecodeRaise(st, "TypeError", i)
            ELSE [st EXCEPT !.kernel_dict[i] =
                      [k \in DOMAIN kdict \cup {"const"} |->
                         IF k = "const" THEN FloatOf(hp[ki + 1]) ELSE kdict[k]],
                            !.ki = ki + 1]
       ELSE LET n == LenOf(kdict, "hyperparameters")
            IN IF n.err # "none" THEN DecodeRaise(st, n.err, i)
               ELSE [st EXCEPT !.kernel_dict[i]["hyperparameters"] =
                                   PyList(Slice(hp, ki, ki + n.theta)),
                               !.ki = ki]

\* One iteration of `for key in kernel_dict`: the scaling factor first.
DecodeBlock(st, i, hp) ==
    LET kdict == st.kernel_dict[i] IN
    IF ~Has(kdict, "type") THEN DecodeRaise(st, "KeyError", i)
    ELSE IF Has(kdict, "scaling")
    THEN IF st.ki >= Len(hp) THEN DecodeRaise(st, "IndexError", i)
         ELSE IF ~CanFloat(hp[st.ki + 1]) THEN DecodeRaise(st, "TypeError", i)
         ELSE DecodeTheta([st EXCEPT !.kernel_dict[i]["scaling"] = FloatOf(hp[st.ki + 1])],
                          i, hp, st.ki + 1)
    ELSE DecodeTheta(st, i, hp, st.ki)

RECURSIVE DecodeLoop(_, _, _)
DecodeLoop(st, i, hp) ==
    IF i > Len(st.kernel_dict) \/ st.err # "none" THEN st
    ELSE DecodeLoop(DecodeBlock(st, i, hp), i + 1, hp)

\* The outcome of list2kdict: the exception (or "none") and the caller's
\* dictionary after the call (the blocks are assigned in place).
list2kdict(hp, kd) == DecodeLoop(DecodeState(kd, 0, "none", 0), 1, hp)

(***************************************************************************)
(* Inputs of the codec: normalized blocks, parameters given per dimension. *)
(***************************************************************************)
\* the floats a, a+1, .., a+n-1
ValList(a, n) == PyList([i \in 1..n |-> PyFloat(a + i - 1)])

CodecBase ==
    { ("type" :> t) @@ ("width" :> ValList(a, n)) :
          t \in {"gaussian", "sqe", "laplacian"}, a \in 1..MaxVal, n \in 1..MaxDim }
    \cup { ("type" :> "scaled_sqe") @@ ("d_scaling" :> ValList(a, n))
             @@ ("width" :> ValList(a + n, n)) : a \in 1..MaxVal, n \in 1..MaxDim }
    \cup { ("type" :> "quadratic") @@ ("slope" :> ValList(a, n))
             @@ ("degree" :> PyFloat(a + n)) : a \in 1..MaxVal, n \in 1..MaxDim }
    \cup { ("type" :> "linear") }
    \cup { ("type" :> "constant") @@ ("const" :> PyFloat(a)) : a \in 1..MaxVal }
    \cup { ("type" :> "user") @@ ("hyperparameters" :> ValList(a, n)) :
             a \in 1..MaxVal, n \in 1..MaxDim }

CodecBlocks == CodecBase \cup { b @@ ("scaling" :> PyFloat(7)) : b \in CodecBase }

CodecDicts == Dicts(CodecBlocks, MaxBlocks) \ {<<>>}

\* the vector an optimizer hands back: n fresh values, all different
Proposal(n) == [i \in 1..n |-> PyFloat(10 + i)]

InitCodec ==
    /\ kernel_dict \in CodecDicts
    /\ before = kernel_dict
    /\ pc = "spec"
    /\ err = "none"
    /\ bounds = <<>>
    /\ failed_at = 0
    /\ args = NoArgs
    /\ hyperparameters = <<>>
    /\ last_vec = <<>>
    /\ src = "none"
    /\ iter = 0

\* hyperparameters = kdicts2list(kernel_dict)
Encode ==
    /\ pc \in {"spec", "decoded"}
    /\ err = "none"
    /\ \E ragged_raises \in BOOLEAN :
          LET r == kdicts2list(kernel_dict, 0, ragged_raises)
          IN /\ hyperparameters' = r.theta
             /\ err' = r.err
    /\ src' = "encode"
    /\ pc' = "encoded"
    /\ failed_at' = 0
    /\ UNCHANGED <<kernel_dict, before, bounds, args, last_vec, iter>>

\* The optimizer replaces the vector by its own: as long as the encoded one,
\* shorter, or longer (a trailing regularization value).
Propose ==
    /\ pc = "encoded"
    /\ err = "none"
    /\ iter < MaxIter
    /\ \E n \in 0..(Len(hyperparameters) + 1) : hyperparameters' = Proposal(n)
    /\ src' = "optimizer"
    /\ pc' = "proposed"
    /\ UNCHANGED <<kernel_dict, before, err, bounds, failed_at, args, last_vec, iter>>

\* kernel_dict = list2kdict(hyperparameters, kernel_dict)
Decode ==
    /\ pc \in {"encoded", "proposed"}
    /\ err = "none"
    /\ iter < MaxIter
    /\ LET r == list2kdict(hyperparameters, kernel_dict)
       IN /\ kernel_dict' = r.kernel_dict
          /\ err' = r.err
          /\ failed_at' = r.failed_at
    /\ before' = kernel_dict
    /\ last_vec' = hyperparameters
    /\ iter' = iter + 1
    /\ pc' = "decoded"
    /\ UNCHANGED <<bounds, args, hyperparameters, src>>

NextCodec == Encode \/ Propose \/ Decode

SpecCodec == InitCodec /\ [][NextCodec]_vars

(***************************************************************************)
(* Vocabulary of the properties.                                           *)
(***************************************************************************)
\* the numbers a value holds, in order, whatever its nesting
RECURSIVE Nums(_)
RECURSIVE VecNums(_)
Nums(x) == IF IsScalar(x) THEN <<x.n>> ELSE VecNums(x.v)
VecNums(s) == IF s = <<>> THEN <<>> ELSE Nums(Head(s)) \o VecNums(Tail(s))

ParamKeys == {"scaling", "width", "d_scaling", "slope", "degree", "const",
              "hyperparameters"}

\* the keys whose value is a sequence of parameters
ListKeys == {"width", "d_scaling", "slope", "hyperparameters"}

\* same keys, same type, same numeric value for every scaling and parameter
SameNumeric(b1, b2) ==
    /\ DOMAIN b1 = DOMAIN b2
    /\ b1["type"] = b2["type"]
    /\ \A k \in DOMAIN b1 \cap ParamKeys : Nums(b1[k]) = Nums(b2[k])

\* same keys, and every parameter keeps its shape: a scalar stays a scalar, a
\* sequence keeps its length
SameShape(b1, b2) ==
    /\ DOMAIN b1 = DOMAIN b2
    /\ \A k \in DOMAIN b1 \cap ParamKeys :
          /\ IsList(b1[k]) = IsList(b2[k])
          /\ IsList(b1[k]) => Len(b1[k].v) = Len(b2[k].v)

\* the number of vector elements one block stands for
BlockCount(b) ==
    (IF Has(b, "scaling") THEN 1 ELSE 0)
    + (CASE b["type"] \in {"gaussian", "sqe", "laplacian"} -> Len(b["width"].v)
         [] b["type"] = "scaled_sqe" -> 2 * Len(b["width"].v)
         [] b["type"] = "quadratic" -> Len(b["slope"].v) + 1
         [] b["type"] = "linear" -> 0
         [] b["type"] = "constant" -> 1
         [] OTHER -> Len(b["hyperparameters"].v))

\* the number of elements the blocks before block i stand for
RECURSIVE OffsetOf(_, _)
OffsetOf(kd, i) == IF i <= 1 THEN 0 ELSE OffsetOf(kd, i - 1) + BlockCount(kd[i - 1])

TotalCount(kd) == OffsetOf(kd, Len(kd) + 1)

\* v[a:b] as numbers
NumSlice(v, a, b) == VecNums(Slice(v, a, b))

\* block `new` holds what a left-to-right reading of v from offset o gives a
\* block shaped like `old`
ReadAt(new, old, v, o) ==
    LET o1 == IF Has(old, "scaling") THEN o + 1 ELSE o
        t == old["type"]
    IN /\ DOMAIN new = DOMAIN old
       /\ Has(old, "scaling") => Nums(new["scaling"]) = NumSlice(v, o, o + 1)
       /\ t \in {"gaussian", "sqe", "laplacian"} =>
             Nums(new["width"]) = NumSlice(v, o1, o1 + Len(old["width"].v))
       /\ t = "scaled_sqe" =>
             /\ Nums(new["d_scaling"]) = NumSlice(v, o1, o1 + Len(old["width"].v))
             /\ Nums(new["width"]) = NumSlice(v, o1 + Len(old["width"].v),
                                              o1 + 2 * Len(old["width"].v))
       /\ t = "quadratic" =>
             /\ Nums(new["slope"]) = NumSlice(v, o1, o1 + Len(old["slope"].v))
             /\ Nums(new["degree"]) = NumSlice(v, o1 + Len(old["slope"].v),
                                               o1 + Len(old["slope"].v) + 1)
       /\ t = "constant" => Nums(new["const"]) = NumSlice(v, o1, o1 + 1)
       /\ t \notin {"gaussian", "sqe", "laplacian", "scaled_sqe", "quadratic",
                    "linear", "constant"} =>
             Nums(new["hyperparameters"]) =
                 NumSlice(v, o1, o1 + Len(old["hyperparameters"].v))

Blocks == 1..Len(kernel_dict)

(***************************************************************************)
(* Properties of the codec, checked under SpecCodec.                       *)
(***************************************************************************)
\* C1: round trip.  Decoding the vector kdicts2list produced for a valid
\* dictionary S into S gives S back: list2kdict returns, and every block has
\* the keys, the type and the numeric value of every scaling and parameter it
\* had before.
C1_RoundTrip ==
    (pc = "decoded" /\ iter = 1 /\ src = "encode") =>
        /\ err = "none"
        /\ \A i \in Blocks : SameNumeric(kernel_dict[i], before[i])

\* C4: list2kdict reads the vector left to right.  Given a vector at least as
\* long as the blocks consume, it returns, and block i holds the elements that
\* start at the offset equal to the number of elements consumed by the blocks
\* before it (1 for a scaling, then the count of its type); the elements after
\* the consumed prefix are ignored.
C4_DecodeOffsets ==
    (pc = "decoded" /\ Len(last_vec) >= TotalCount(before)) =>
        /\ err = "none"
        /\ \A i \in Blocks :
              ReadAt(kernel_dict[i], before[i], last_vec, OffsetOf(before, i))

\* C5: a vector shorter than the blocks consume makes list2kdict raise, and
\* a call that returns never leaves a parameter sequence shorter than the one
\* it replaced.
C5_ShortVectorRaises ==
    pc = "decoded" =>
        /\ Len(last_vec) < TotalCount(before) => err # "none"
        /\ err = "none" =>
              \A i \in Blocks : \A k \in DOMAIN before[i] \cap ListKeys :
                  Len(kernel_dict[i][k].v) >= Len(before[i][k].v)

\* C10: decode then encode is stable.  After list2kdict(v, S) with v at least
\* as long as S consumes, kdicts2list returns a flat sequence of scalars equal
\* to the consumed prefix of v, and every block has kept its keys and the shape
\* of every parameter (a scalar degree is still a scalar).
C10_DecodeEncodeStable ==
    (pc = "encoded" /\ iter = 1 /\ Len(last_vec) >= TotalCount(before)) =>
        /\ err = "none"
        /\ \A j \in 1..Len(hyperparameters) : IsScalar(hyperparameters[j])
        /\ VecNums(hyperparameters) = NumSlice(last_vec, 0, TotalCount(before))
        /\ \A i \in Blocks : SameShape(kernel_dict[i], before[i])

(***************************************************************************)
(* Properties of prepare_kernels, checked under SpecPrepare.               *)
(***************************************************************************)
Prepared == pc = "prepared"
Returned == pc = "prepared" /\ err = "none"

\* the same call on another dictionary
SameCall(kd) ==
    prepare_kernels(kd, args.regularization_bounds, args.eval_gradients,
                    args.N_D, args.interned)

\* block i of kd without one key
WithoutKey(kd, i, key) ==
    [kd EXCEPT ![i] = [k \in DOMAIN kd[i] \ {key} |-> kd[i][k]]]

\* the bounds the call has collected once the first n blocks are done
BoundsThrough(kd, n) ==
    LET b == SameCall(SubSeq(kd, 1, n)).bounds IN SubSeq(b, 1, Len(b) - 1)

TheDefault == DefaultBounds(args.eval_gradients)[1]

\* C2: the returned bounds hold one entry per free scalar parameter of the
\* normalized dictionary, so one more than the flat vector kdicts2list makes
\* of it, and the last entry is the regularization_bounds argument.
C2_BoundsPerParameter ==
    (Returned /\ kdicts2list(kernel_dict, args.N_D, FALSE).err = "none") =>
        /\ Len(bounds) = Len(kdicts2list(kernel_dict, args.N_D, FALSE).theta) + 1
        /\ bounds[Len(bounds)] = args.regularization_bounds

\* the dimension count a block resolves on its own
OwnDim(b, N_D) ==
    IF Has(b, "dimension") /\ b["dimension"] = "single" THEN 1
    ELSE IF Has(b, "features") THEN Len(b["features"])
    ELSE N_D

\* C3: the dimension count of a block comes from that block alone.  With the
\* identity tests on strings succeeding: a dictionary whose blocks are each
\* accepted alone is accepted (the features check is against the caller's
\* N_D), and in a returned dictionary a scalar width or slope has been
\* broadcast to the block's own dimension count, len(features) or else the
\* caller's N_D, 1 for dimension "single".
C3_DimensionPerBlock ==
    (Prepared /\ args.interned) =>
        /\ (\A i \in Blocks : SameCall(<<before[i]>>).err = "none") => err = "none"
        /\ err = "none" =>
              \A i \in Blocks : \A k \in DOMAIN before[i] \cap {"width", "slope"} :
                  (before[i]["type"] \in SetupTypes /\ IsScalar(before[i][k])) =>
                      Len(kernel_dict[i][k].v) = OwnDim(before[i], args.N_D)

\* the permitted keys of each type: the allow-list of its setup routine; for
\* linear, which has no parameters, the optional keys common to all blocks
PermittedKeys(t) ==
    {"type", "operation", "features", "dimension"}
    \cup (CASE t = "constant" -> {"const"}
            [] t \in {"gaussian", "laplacian"} -> {"scaling", "width"}
            [] t = "quadratic" -> {"scaling", "slope", "degree"}
            [] OTHER -> {"scaling", "scaling_bounds", "bounds"})

\* block b is of one of the types ts and holds a key that type does not permit
Unpermitted(b, ts) ==
    /\ Has(b, "type")
    /\ b["type"] \in ts
    /\ ~(DOMAIN b \subseteq PermittedKeys(b["type"]))

\* C6 as stated: a dictionary with a block of a recognized type (constant,
\* linear, gaussian, laplacian, quadratic) that holds a key outside the type's
\* allow-list is never accepted.
C6_UnpermittedKeyRejected ==
    (Prepared /\ \E i \in Blocks : Unpermitted(before[i], SetupTypes \cup {"linear"}))
        => err # "none"

\* C6 amended: a dictionary with a block of type constant, gaussian, laplacian
\* or quadratic that holds a key outside the type's allow-list is never
\* accepted: the call raises at that block or at an earlier one, and when it
\* raises at that block the exception is the configuration error
\* (AssertionError).
C6_SetupTypesRejectUnpermittedKey ==
    Prepared =>
        \A i \in Blocks :
            Unpermitted(before[i], SetupTypes) =>
                /\ err # "none"
                /\ failed_at \in 1..i
                /\ failed_at = i => err = "AssertionError"

\* C6 witness: a second block with an unpermitted key was reached and rejected
C6_Witness ==
    /\ Prepared
    /\ Len(before) = 2
    /\ Unpermitted(before[2], SetupTypes)
    /\ failed_at = 2
    /\ err = "AssertionError"

\* the override occurs in the sequence bs
Holds(bs, override) ==
    \E j \in 1..Len(bs) :
        /\ j + Len(override) - 1 <= Len(bs)
        /\ SubSeq(bs, j, j + Len(override) - 1) = override

\* the entries block i added to the bounds after the entry of its scaling
ParameterBounds(kd, i) ==
    SubSeq(BoundsThrough(kd, i),
           Len(BoundsThrough(kd, i - 1)) + (IF Has(kd[i], "scaling") THEN 2 ELSE 1),
           Len(BoundsThrough(kd, i)))

\* C7: a constant, gaussian or laplacian block may carry a `bounds` override.
\* If the dictionary is accepted without the block's `bounds` key, it is
\* accepted with it, and the returned bounds hold the override; a block
\* without the key adds default pairs only, one for a constant block.
C7_BoundsOverride ==
    Prepared =>
        \A i \in Blocks :
            (Has(before[i], "type")
                /\ before[i]["type"] \in {"constant", "gaussian", "laplacian"}) =>
              /\ ( /\ Has(before[i], "bounds")
                   /\ SameCall(WithoutKey(before, i, "bounds")).err = "none" )
                 => /\ err = "none"
                    /\ Holds(bounds, before[i]["bounds"])
              /\ (~Has(before[i], "bounds") /\ err = "none")
                 => /\ \A j \in 1..Len(ParameterBounds(before, i)) :
                          ParameterBounds(before, i)[j] = TheDefault
                    /\ Len(ParameterBounds(before, i)) >= 1
                    /\ before[i]["type"] = "constant" =>
                          Len(ParameterBounds(before, i)) = 1

\* C8 as stated: when prepare_kernels raises, nothing is returned and every
\* block of the caller's dictionary is as it was before the call.
C8_FailureLeavesDictUntouched ==
    (Prepared /\ err # "none") =>
        /\ bounds = <<>>
        /\ kernel_dict = before

\* block `new` is block `old` with scalar widths / slopes written out as
\* sequences of that scalar
BroadcastOf(new, old) ==
    /\ DOMAIN new = DOMAIN old
    /\ \A k \in DOMAIN old :
          \/ new[k] = old[k]
          \/ /\ k \in {"width", "slope"}
             /\ IsScalar(old[k])
             /\ IsList(new[k])
             /\ \A j \in 1..Len(new[k].v) : new[k].v[j] = old[k]

\* C8 amended: when prepare_kernels raises, nothing is returned; the block
\* at which it raised and the blocks after it are as they were before the
\* call, and a block before it differs at most by a scalar width or slope
\* rewritten as a sequence of that scalar.
C8_FailureLeavesBroadcastsOnly ==
    (Prepared /\ err # "none") =>
        /\ bounds = <<>>
        /\ failed_at \in Blocks
        /\ Len(kernel_dict) = Len(before)
        /\ \A i \in Blocks :
              /\ i >= failed_at => kernel_dict[i] = before[i]
              /\ i < failed_at => BroadcastOf(kernel_dict[i], before[i])

\* C8 witness: the call raised at the second block after the first was rewritten
C8_Witness ==
    /\ Prepared
    /\ err # "none"
    /\ failed_at = 2
    /\ kernel_dict[1] # before[1]
    /\ kernel_dict[2] = before[2]

\* C9: a block with a `scaling` that is not a float makes the call raise; a
\* float scaling adds exactly one entry to the bounds, ahead of the block's
\* parameter bounds: the (low, high) pair of `scaling_bounds` when the block
\* has one (and the dictionary is accepted without it), else the default pair.
C9_ScalingBounds ==
    Prepared =>
        \A i \in Blocks :
            Has(before[i], "scaling") =>
                /\ ~IsFloat(before[i]["scaling"]) => err # "none"
                /\ ( /\ IsFloat(before[i]["scaling"])
                     /\ Has(before[i], "scaling_bounds")
                     /\ SameCall(WithoutKey(before, i, "scaling_bounds")).err = "none" )
                   => /\ err = "none"
                      /\ bounds[Len(BoundsThrough(before, i - 1)) + 1] = "(sb_low,sb_high)"
                      /\ Len(BoundsThrough(before, i))
                            = Len(BoundsThrough(WithoutKey(before, i, "scaling_bounds"), i))
                /\ ( /\ IsFloat(before[i]["scaling"])
                     /\ ~Has(before[i], "scaling_bounds")
                     /\ err = "none" )
                   => /\ bounds[Len(BoundsThrough(before, i - 1)) + 1] = TheDefault
                      /\ Len(BoundsThrough(before, i))
                            = 1 + Len(BoundsThrough(
                                    WithoutKey(WithoutKey(before, i, "scaling"),
                                               i, "scaling_bounds"), i))

====
